---- MODULE Spec2Model ----
(***************************************************************************)
(* TensorPhysicsEngine (src/physics/engine.py): the engine object, its     *)
(* constructor, step, run_simulation, get_state and set_state, and the     *)
(* per-step XPBD pipeline they drive.                                      *)
(*                                                                         *)
(* Numbers.  Every tensor the engine stores is float32.  A caller's array  *)
(* value is an integer count of half units; a stored float32 value is an   *)
(* integer count of whole units, so that astype(np.float32) rounds (to     *)
(* nearest, ties to even) and .numpy() gives back a value on the caller's  *)
(* scale.  Vectors are reduced to their component along the gravity axis,  *)
(* orientation to an angle counted in quarter turns.                       *)
(*                                                                         *)
(* The pipeline stages (physics/xpbd/*.py) are written from sections 4.1   *)
(* to 4.6 of the specification; the engine code that calls them is         *)
(* written from engine.py.  TinyJit is taken as a wrapper that returns     *)
(* what the wrapped function returns.                                      *)
(***************************************************************************)
EXTENDS Integers, Sequences, FiniteSets, TLC

VARIABLES self, op, ret, raised, ctor, base, k, lam_solved, memo, hit

vars == <<self, op, ret, raised, ctor, base, k, lam_solved, memo, hit>>

\* ------------------------------------------------------------------ bounds

\* Largest num_steps handed to run_simulation.
MaxSteps == 2

\* Largest |position| of a body the model follows.
MaxPos == 5

\* Largest |velocity| and |angular velocity| the model follows.
MaxVel == 3

\* Longest run of consecutive default steps compared with run_simulation.
MaxTrack == 3

\* ------------------------------------------------------- program constants

\* physics.types.ShapeType members used by the test scene.
SPHERE == 0

BOX == 1

\* Orientation resolution: angles are counted modulo a full turn.
QMod == 4

\* 0.5, the friction a body gets when the constructor is given none.
FrictionDefault == 2

\* Python's None, and a present optional value.
None == <<>>

Some(val) == <<val>>

\* ------------------------------------------------------------- arithmetic

Abs(a) == IF a < 0 THEN -a ELSE a

Sgn(a) == IF a < 0 THEN -1 ELSE IF a > 0 THEN 1 ELSE 0

Min(a, b) == IF a < b THEN a ELSE b

Max(a, b) == IF a < b THEN b ELSE a

isqrt(n) == CHOOSE r \in 0..n : r * r <= n /\ n < (r + 1) * (r + 1)

\* ------------------------------------------------------------ conversions

\* ndarray.astype(np.float32) of one value: round to the nearest float32,
\* ties to the even one.
astype_f32(h) == IF h % 2 = 0 THEN h \div 2 ELSE IF (h \div 2) % 2 = 0 THEN h \div 2 ELSE (h \div 2) + 1

\* ndarray.astype(np.int32) of one value: the fraction is cut off.
astype_i32(h) == IF h >= 0 THEN h \div 2 ELSE -((-h) \div 2)

\* Tensor(a.astype(np.float32)) of an array of scalars.
Tensor_f32(a) == [i \in 1..Len(a) |-> astype_f32(a[i])]

\* Tensor(a.astype(np.float32)) of an array of 3-vectors.
Tensor_f32x3(a) == [i \in 1..Len(a) |-> [j \in 1..3 |-> astype_f32(a[i][j])]]

\* Tensor(a.astype(np.int32)).
Tensor_i32(a) == [i \in 1..Len(a) |-> astype_i32(a[i])]

\* Tensor.numpy() of a float32 tensor, on the caller's scale.
numpy(t) == [i \in 1..Len(t) |-> 2 * t[i]]

numpy_x3(t) == [i \in 1..Len(t) |-> [j \in 1..3 |-> 2 * t[i][j]]]

\* Tensor.numpy() of an int32 tensor.
numpy_i32(t) == [i \in 1..Len(t) |-> 2 * t[i]]

\* ---------------------------------------------------------------- pipeline

\* Half extent of body i along the contact axis: a sphere's radius is its
\* first shape parameter, a box's half thickness its second.
extent(shape_type, shape_params, i) == IF shape_type[i] = SPHERE THEN shape_params[i][1] ELSE shape_params[i][2]

\* 4.1 Predictor.
predict_state(x, q, v, omega, inv_mass, inv_inertia, gravity, dt) ==
  LET N == Len(x)
      v_new == [i \in 1..N |-> IF inv_mass[i] > 0 THEN v[i] + gravity * dt ELSE v[i]]
      x_pred == [i \in 1..N |-> IF inv_mass[i] > 0 THEN x[i] + v_new[i] * dt ELSE x[i]]
      q_pred == [i \in 1..N |-> IF inv_mass[i] > 0 THEN (q[i] + omega[i] * dt) % QMod ELSE q[i]]
  IN  [x |-> x_pred, q |-> q_pred, v |-> v_new, omega |-> omega]

PairLess(p, r) == p[1] < r[1] \/ (p[1] = r[1] /\ p[2] <= r[2])

RECURSIVE PairSeq(_)
PairSeq(S) ==
  IF S = {} THEN <<>>
  ELSE LET m == CHOOSE p \in S : \A r \in S : PairLess(p, r)
       IN  <<m>> \o PairSeq(S \ {m})

\* 4.2 Spatial hash: cells as wide as the largest body; bodies sharing a cell
\* are candidates, each pair once, a < b.
uniform_spatial_hash(x_pred, shape_type, shape_params) ==
  LET N == Len(x_pred)
      ext(i) == extent(shape_type, shape_params, i)
      largest == CHOOSE m \in {ext(i) : i \in 1..N} : \A i \in 1..N : ext(i) <= m
      cs == Max(1, 2 * largest)
      cells(i) == ((x_pred[i] - ext(i)) \div cs) .. ((x_pred[i] + ext(i)) \div cs)
  IN  PairSeq({p \in (1..N) \X (1..N) : p[1] < p[2] /\ cells(p[1]) \cap cells(p[2]) # {}})

\* 4.3 Contact generator: one contact per candidate pair that touches or
\* overlaps; normal from b to a; friction combined by geometric mean.
generate_contacts(x_pred, q_pred, candidate_pairs, shape_type, shape_params, friction, contact_compliance) ==
  LET ext(i) == extent(shape_type, shape_params, i)
      contact(p) == [ids_a |-> p[1], ids_b |-> p[2],
                     normal |-> IF x_pred[p[1]] >= x_pred[p[2]] THEN 1 ELSE -1,
                     rest |-> ext(p[1]) + ext(p[2]),
                     depth |-> ext(p[1]) + ext(p[2]) - Abs(x_pred[p[1]] - x_pred[p[2]]),
                     friction |-> isqrt(friction[p[1]] * friction[p[2]]),
                     compliance |-> contact_compliance]
      touching(c) == c.depth >= 0
  IN  SelectSeq([j \in 1..Len(candidate_pairs) |-> contact(candidate_pairs[j])], touching)

\* 4.4 One contact's projection: st is [x, q, lambda].  C is the penetration
\* depth (positive = violation) and lambda grows when the bodies are pushed
\* apart along the normal, so the update reads (C - alpha * lambda) / (w + alpha).
project_contact(st, c, j, inv_mass, inv_inertia, dt) ==
  LET a == c.ids_a
      b == c.ids_b
      C == c.rest - (st.x[a] - st.x[b]) * c.normal
      alpha == c.compliance \div (dt * dt)
      w == inv_mass[a] + inv_mass[b]
      dl == IF w + alpha = 0 THEN 0 ELSE (C - alpha * st.lambda[j]) \div (w + alpha)
      lam == Max(0, st.lambda[j] + dl)
      d == lam - st.lambda[j]
  IN  [x |-> [i \in 1..Len(st.x) |->
                IF i = a THEN st.x[i] + d * c.normal * inv_mass[a]
                ELSE IF i = b THEN st.x[i] - d * c.normal * inv_mass[b]
                ELSE st.x[i]],
       q |-> st.q,
       lambda |-> [st.lambda EXCEPT ![j] = lam]]

RECURSIVE solve_pass(_, _, _, _, _, _)
solve_pass(st, contacts, j, inv_mass, inv_inertia, dt) ==
  IF j > Len(contacts) THEN st
  ELSE solve_pass(project_contact(st, contacts[j], j, inv_mass, inv_inertia, dt), contacts, j + 1, inv_mass, inv_inertia, dt)

RECURSIVE solve_loop(_, _, _, _, _, _)
solve_loop(st, contacts, inv_mass, inv_inertia, dt, iterations) ==
  IF iterations <= 0 THEN st
  ELSE solve_loop(solve_pass(st, contacts, 1, inv_mass, inv_inertia, dt), contacts, inv_mass, inv_inertia, dt, iterations - 1)

\* 4.4 Position solver, with the multipliers it accumulates; they start at 0.
solve_with_lambda(x_pred, q_pred, contacts, inv_mass, inv_inertia, dt, iterations) ==
  solve_loop([x |-> x_pred, q |-> q_pred, lambda |-> [j \in 1..Len(contacts) |-> 0]], contacts, inv_mass, inv_inertia, dt, iterations)

\* solve_constraints as the engine calls it: positions and orientations only.
solve_constraints(x_pred, q_pred, contacts, inv_mass, inv_inertia, dt, iterations) ==
  LET r == solve_with_lambda(x_pred, q_pred, contacts, inv_mass, inv_inertia, dt, iterations)
  IN  [x |-> r.x, q |-> r.q]

\* Shortest signed arc from q_old to q_proj.
arc(q_proj, q_old) ==
  LET d == (q_proj - q_old) % QMod
  IN  IF 2 * d > QMod THEN d - QMod ELSE d

\* 4.5 Velocity reconciler: every body's velocity from its position change.
reconcile_velocities(x_proj, q_proj, x_old, q_old, v_new, omega_new, dt) ==
  [v |-> [i \in 1..Len(x_proj) |-> (x_proj[i] - x_old[i]) \div dt],
   omega |-> [i \in 1..Len(q_proj) |-> arc(q_proj[i], q_old[i]) \div dt]]

\* 4.6 One contact's restitution and friction impulses: st is [v, omega].
velocity_contact(st, c, j, inv_mass, inv_inertia, dt, lam, restitution) ==
  LET a == c.ids_a
      b == c.ids_b
      vn == (st.v[a] - st.v[b]) * c.normal
      w == inv_mass[a] + inv_mass[b]
      jn == IF vn < 0 /\ w > 0 THEN (-(restitution * vn) - vn) \div w ELSE 0
      bound == (c.friction * lam[j]) \div dt
      brake(i) == Sgn(st.omega[i]) * Min(Abs(st.omega[i]), bound * inv_inertia[i])
  IN  [v |-> [i \in 1..Len(st.v) |->
                IF i = a THEN st.v[i] + jn * c.normal * inv_mass[a]
                ELSE IF i = b THEN st.v[i] - jn * c.normal * inv_mass[b]
                ELSE st.v[i]],
       omega |-> [i \in 1..Len(st.omega) |->
                IF i = a \/ i = b THEN st.omega[i] - brake(i) ELSE st.omega[i]]]

RECURSIVE velocity_pass(_, _, _, _, _, _, _, _)
velocity_pass(st, contacts, j, inv_mass, inv_inertia, dt, lam, restitution) ==
  IF j > Len(contacts) THEN st
  ELSE velocity_pass(velocity_contact(st, contacts[j], j, inv_mass, inv_inertia, dt, lam, restitution), contacts, j + 1, inv_mass, inv_inertia, dt, lam, restitution)

\* 4.6 Velocity solver: one pass over the contacts.
solve_velocities(v, omega, contacts, inv_mass, inv_inertia, dt, lam, restitution) ==
  velocity_pass([v |-> v, omega |-> omega], contacts, 1, inv_mass, inv_inertia, dt, lam, restitution)

\* ------------------------------------------------------------- engine.py

\* _physics_step_static, stage by stage, each stage handing its result to
\* the next.  Last stage: the velocity solver's output and the step's result,
\* with the multipliers the position solver ended with (lambda_pos) and the
\* lambda_acc the velocity solver was given.
step_result(fin, proj, lambda_pos, lambda_acc) ==
  [x |-> proj.x, q |-> proj.q, v |-> fin.v, omega |-> fin.omega, lambda_pos |-> lambda_pos, lambda_acc |-> lambda_acc]

\* lambda_acc = Tensor.zeros((num_contacts,)), then solve_velocities.
step_velocities(rec, proj, lambda_pos, lambda_acc, contacts, inv_mass, inv_inertia, dt, restitution) ==
  step_result(solve_velocities(rec.v, rec.omega, contacts, inv_mass, inv_inertia, dt, lambda_acc, restitution), proj, lambda_pos, lambda_acc)

\* reconcile_velocities on the projected and the old poses.
step_reconcile(proj, lambda_pos, contacts, pred, x_old, q_old, inv_mass, inv_inertia, dt, restitution) ==
  step_velocities(reconcile_velocities(proj.x, proj.q, x_old, q_old, pred.v, pred.omega, dt), proj, lambda_pos, [j \in 1..Len(contacts) |-> 0], contacts, inv_mass, inv_inertia, dt, restitution)

\* The position solver started from the multipliers of the step before
\* instead of from 0.
step_solve_warm(contacts, pred, x_old, q_old, inv_mass, inv_inertia, dt, restitution, solver_iterations) ==
  LET warm == solve_loop([x |-> pred.x, q |-> pred.q, lambda |-> [j \in 1..Len(contacts) |-> IF j <= Len(lam_solved) THEN lam_solved[j] ELSE 0]], contacts, inv_mass, inv_inertia, dt, solver_iterations)
  IN  step_reconcile([x |-> warm.x, q |-> warm.q], warm.lambda, contacts, pred, x_old, q_old, inv_mass, inv_inertia, dt, restitution)

\* solve_constraints on the predicted poses; its multipliers stay inside it.
step_solve(contacts, pred, x_old, q_old, inv_mass, inv_inertia, dt, restitution, solver_iterations) ==
  step_reconcile(solve_constraints(pred.x, pred.q, contacts, inv_mass, inv_inertia, dt, solver_iterations), solve_with_lambda(pred.x, pred.q, contacts, inv_mass, inv_inertia, dt, solver_iterations).lambda, contacts, pred, x_old, q_old, inv_mass, inv_inertia, dt, restitution)

\* uniform_spatial_hash and generate_contacts on the predicted poses.
step_contacts(pred, x_old, q_old, inv_mass, inv_inertia, shape_type, shape_params, friction, dt, restitution, solver_iterations, contact_compliance) ==
  step_solve(generate_contacts(pred.x, pred.q, uniform_spatial_hash(pred.x, shape_type, shape_params), shape_type, shape_params, friction, contact_compliance), pred, x_old, q_old, inv_mass, inv_inertia, dt, restitution, solver_iterations)

\* x_old, q_old = x, q and predict_state.
physics_step_trace(x, q, v, omega, inv_mass, inv_inertia, shape_type, shape_params, friction, dt, gravity, restitution, solver_iterations, contact_compliance) ==
  step_contacts(predict_state(x, q, v, omega, inv_mass, inv_inertia, gravity, dt), x, q, inv_mass, inv_inertia, shape_type, shape_params, friction, dt, restitution, solver_iterations, contact_compliance)

\* return x_proj, q_proj, v_final, omega_final
returned4(t) == [x |-> t.x, q |-> t.q, v |-> t.v, omega |-> t.omega]

_physics_step_static(x, q, v, omega, inv_mass, inv_inertia, shape_type, shape_params, friction, dt, gravity, restitution, solver_iterations, contact_compliance) ==
  returned4(physics_step_trace(x, q, v, omega, inv_mass, inv_inertia, shape_type, shape_params, friction, dt, gravity, restitution, solver_iterations, contact_compliance))

RECURSIVE _n_step_simulation(_, _, _, _, _, _, _, _, _, _, _, _, _, _, _)

\* The loop's next round: x, q, v, omega are what the step returned.
n_step_rest(r, inv_mass, inv_inertia, shape_type, shape_params, friction, dt, gravity, num_steps, restitution, solver_iterations, contact_compliance) ==
  _n_step_simulation(r.x, r.q, r.v, r.omega, inv_mass, inv_inertia, shape_type, shape_params, friction, dt, gravity, num_steps, restitution, solver_iterations, contact_compliance)

\* A loop that tests its count after the body: it runs at least once.
n_step_at_least_once(x, q, v, omega, inv_mass, inv_inertia, shape_type, shape_params, friction, dt, gravity, num_steps, restitution, solver_iterations, contact_compliance) ==
  IF num_steps <= 1 THEN _physics_step_static(x, q, v, omega, inv_mass, inv_inertia, shape_type, shape_params, friction, dt, gravity, restitution, solver_iterations, contact_compliance)
  ELSE n_step_rest(_physics_step_static(x, q, v, omega, inv_mass, inv_inertia, shape_type, shape_params, friction, dt, gravity, restitution, solver_iterations, contact_compliance), inv_mass, inv_inertia, shape_type, shape_params, friction, dt, gravity, num_steps - 1, restitution, solver_iterations, contact_compliance)

_n_step_simulation(x, q, v, omega, inv_mass, inv_inertia, shape_type, shape_params, friction, dt, gravity, num_steps, restitution, solver_iterations, contact_compliance) ==
  IF num_steps <= 0 THEN [x |-> x, q |-> q, v |-> v, omega |-> omega]
  ELSE n_step_rest(_physics_step_static(x, q, v, omega, inv_mass, inv_inertia, shape_type, shape_params, friction, dt, gravity, restitution, solver_iterations, contact_compliance), inv_mass, inv_inertia, shape_type, shape_params, friction, dt, gravity, num_steps - 1, restitution, solver_iterations, contact_compliance)

\* self.jitted_step = TinyJit(_physics_step_static)
jitted_step(x, q, v, omega, inv_mass, inv_inertia, shape_type, shape_params, friction, dt, gravity, restitution, solver_iterations, contact_compliance) ==
  _physics_step_static(x, q, v, omega, inv_mass, inv_inertia, shape_type, shape_params, friction, dt, gravity, restitution, solver_iterations, contact_compliance)

\* self.jitted_n_step = TinyJit(_n_step_simulation)
jitted_n_step(x, q, v, omega, inv_mass, inv_inertia, shape_type, shape_params, friction, dt, gravity, num_steps, restitution, solver_iterations, contact_compliance) ==
  _n_step_simulation(x, q, v, omega, inv_mass, inv_inertia, shape_type, shape_params, friction, dt, gravity, num_steps, restitution, solver_iterations, contact_compliance)

\* The tensor operations of a step raise when the per-body arrays do not
\* all have one length.
shapes_agree(e) ==
  /\ Len(e.q) = Len(e.x) /\ Len(e.v) = Len(e.x) /\ Len(e.omega) = Len(e.x)
  /\ Len(e.inv_mass) = Len(e.x) /\ Len(e.inv_inertia) = Len(e.x)
  /\ Len(e.shape_type) = Len(e.x) /\ Len(e.shape_params) = Len(e.x)
  /\ Len(e.friction) = Len(e.x)

\* TensorPhysicsEngine.__init__: a is the record of its arguments.
__init__(a) ==
  [x |-> Tensor_f32(a.x), q |-> Tensor_f32(a.q), v |-> Tensor_f32(a.v), omega |-> Tensor_f32(a.omega),
   inv_mass |-> Tensor_f32(a.inv_mass), inv_inertia |-> Tensor_f32(a.inv_inertia),
   shape_type |-> Tensor_i32(a.shape_type), shape_params |-> Tensor_f32x3(a.shape_params),
   friction |-> Tensor_f32(IF a.friction = None THEN [i \in 1..Len(a.x) |-> FrictionDefault] ELSE a.friction[1]),
   gravity |-> astype_f32(a.gravity), dt |-> a.dt, restitution |-> a.restitution,
   solver_iterations |-> a.solver_iterations, contact_compliance |-> a.contact_compliance,
   jitted_n_step |-> FALSE]

\* self.x, self.q, self.v, self.omega = <what the jitted function returned>
assign4(e, r) == [e EXCEPT !.x = r.x, !.q = r.q, !.v = r.v, !.omega = r.omega]

\* step's first statement: a dt that is given and differs is stored.
store_dt(e0, dt) == IF dt # None /\ dt[1] # e0.dt THEN [e0 EXCEPT !.dt = dt[1]] ELSE e0

\* step after its first statement: the jitted step on the engine's fields.
step_jitted(e) ==
  IF shapes_agree(e)
  THEN [self |-> assign4(e, jitted_step(e.x, e.q, e.v, e.omega, e.inv_mass, e.inv_inertia, e.shape_type, e.shape_params, e.friction, e.dt, e.gravity, e.restitution, e.solver_iterations, e.contact_compliance)), raised |-> FALSE]
  ELSE [self |-> e, raised |-> TRUE]

\* TensorPhysicsEngine.step: the engine after the call, and whether it raised.
step(e0, dt) == step_jitted(store_dt(e0, dt))

\* run_simulation after the n-step function is built.
run_jitted(e, num_steps) ==
  IF num_steps <= 0 \/ shapes_agree(e)
  THEN [self |-> assign4(e, jitted_n_step(e.x, e.q, e.v, e.omega, e.inv_mass, e.inv_inertia, e.shape_type, e.shape_params, e.friction, e.dt, e.gravity, num_steps, e.restitution, e.solver_iterations, e.contact_compliance)), raised |-> FALSE]
  ELSE [self |-> e, raised |-> TRUE]

\* TensorPhysicsEngine.run_simulation.
run_simulation(e0, num_steps) == run_jitted([e0 EXCEPT !.jitted_n_step = TRUE], num_steps)

\* get_state with the position filed under 'v' as well.
get_state_wrong_key(e) ==
  [x |-> numpy(e.x), q |-> numpy(e.q), v |-> numpy(e.x), omega |-> numpy(e.omega),
   inv_mass |-> numpy(e.inv_mass), inv_inertia |-> numpy(e.inv_inertia),
   shape_type |-> numpy_i32(e.shape_type), shape_params |-> numpy_x3(e.shape_params)]

\* TensorPhysicsEngine.get_state: the dictionary it returns.
get_state(e) ==
  [x |-> numpy(e.x), q |-> numpy(e.q), v |-> numpy(e.v), omega |-> numpy(e.omega),
   inv_mass |-> numpy(e.inv_mass), inv_inertia |-> numpy(e.inv_inertia),
   shape_type |-> numpy_i32(e.shape_type), shape_params |-> numpy_x3(e.shape_params)]

\* set_state that also rebuilds the inverse masses for the new arrays.
set_state_rebuilds_mass(e, x, q, v, omega) ==
  [e EXCEPT !.x = Tensor_f32(x), !.q = Tensor_f32(q), !.v = Tensor_f32(v), !.omega = Tensor_f32(omega), !.inv_mass = [i \in 1..Len(x) |-> 1]]

\* TensorPhysicsEngine.set_state.
set_state(e, x, q, v, omega) ==
  [e EXCEPT !.x = Tensor_f32(x), !.q = Tensor_f32(q), !.v = Tensor_f32(v), !.omega = Tensor_f32(omega)]

\* ------------------------------------------------------------------ inputs

\* The test's scene on the model's scale: a static box (half thickness 1)
\* at height 0 and a unit-mass sphere of radius 1 at height 3.
SceneArgs ==
  [x |-> <<0, 6>>, q |-> <<0, 0>>, v |-> <<0, 0>>, omega |-> <<0, 0>>,
   inv_mass |-> <<0, 2>>, inv_inertia |-> <<0, 2>>,
   shape_type |-> <<2 * BOX, 2 * SPHERE>>, shape_params |-> << <<100, 2, 100>>, <<2, 0, 0>> >>,
   friction |-> Some(<<2, 2>>), gravity |-> -2, dt |-> 1, restitution |-> 0,
   solver_iterations |-> 2, contact_compliance |-> 0]

\* Constructor arguments: the scene, a spinning sphere with default friction,
\* a static body given a velocity, a soft contact under a larger sphere, a
\* bouncy contact, values float32 cannot hold, per-body arrays of different
\* lengths, a sphere of radius 0.
CtorInputs ==
  { SceneArgs,
    [SceneArgs EXCEPT !.omega = <<0, 2>>, !.friction = None],
    [SceneArgs EXCEPT !.v = <<2, 0>>, !.omega = <<2, 0>>, !.dt = 2],
    [SceneArgs EXCEPT !.contact_compliance = 1, !.shape_params = << <<100, 2, 100>>, <<4, 0, 0>> >>],
    [SceneArgs EXCEPT !.restitution = 1],
    [SceneArgs EXCEPT !.x = <<0, 7>>, !.v = <<0, -1>>],
    [SceneArgs EXCEPT !.inv_mass = <<0, 2, 2>>],
    [SceneArgs EXCEPT !.shape_params = << <<100, 2, 100>>, <<0, 0, 0>> >>] }

\* set_state arguments: at rest on the box, sunk into it, values float32
\* cannot hold, a moving static body, arrays of another length.
SetStateInputs ==
  { [x |-> <<0, 4>>, q |-> <<0, 0>>, v |-> <<0, 0>>, omega |-> <<0, 0>>],
    [x |-> <<0, 2>>, q |-> <<0, 0>>, v |-> <<0, 0>>, omega |-> <<0, 0>>],
    [x |-> <<0, 5>>, q |-> <<0, 2>>, v |-> <<0, -1>>, omega |-> <<0, 3>>],
    [x |-> <<0, 6>>, q |-> <<2, 0>>, v |-> <<2, -2>>, omega |-> <<2, 0>>],
    [x |-> <<0, 6, 8>>, q |-> <<0, 0, 0>>, v |-> <<0, 0, 0>>, omega |-> <<0, 0, 0>>] }

\* The dt a caller hands to step: none, or a value.
DtInputs == {None, Some(1), Some(2)}

\* ------------------------------------------------------------------- state

body(e) == <<e.x, e.q, e.v, e.omega>>

\* What a step reads: every field but the lazily built n-step function.
read_by_step(e) == [e EXCEPT !.jitted_n_step = FALSE]

InBounds(e) ==
  /\ \A i \in 1..Len(e.x) : Abs(e.x[i]) <= MaxPos
  /\ \A i \in 1..Len(e.v) : Abs(e.v[i]) <= MaxVel
  /\ \A i \in 1..Len(e.omega) : Abs(e.omega[i]) <= MaxVel

\* The multipliers the position solver ends with in the step taken from
\* engine e.
solved_in_step(e) == physics_step_trace(e.x, e.q, e.v, e.omega, e.inv_mass, e.inv_inertia, e.shape_type, e.shape_params, e.friction, e.dt, e.gravity, e.restitution, e.solver_iterations, e.contact_compliance).lambda_pos

Init ==
  \E a \in CtorInputs :
    /\ ctor = a
    /\ self = __init__(a)
    /\ op = <<"__init__", None>>
    /\ ret = None
    /\ raised = FALSE
    /\ base = __init__(a)
    /\ k = 0
    /\ lam_solved = <<>>
    /\ memo = None
    /\ hit = "no"

\* Bookkeeping of a run of default steps: base is the engine the run began
\* from and k the number of default steps taken since.
Track(n) ==
  IF k + n <= MaxTrack
  THEN base' = base /\ k' = k + n
  ELSE base' = self /\ k' = n

\* What a call that returns None leaves behind.
Returned(r, name, arg) ==
  /\ InBounds(r.self)
  /\ self' = r.self
  /\ raised' = r.raised
  /\ ret' = None
  /\ op' = <<name, arg>>

\* engine.step(dt), all of it but the memo.
StepCall(dt) ==
  /\ Returned(step(self, dt), "step", dt)
  /\ IF dt = None THEN Track(1) ELSE base' = self' /\ k' = 0
  /\ lam_solved' = IF raised' THEN <<>> ELSE solved_in_step(store_dt(self, dt))
  /\ UNCHANGED ctor

\* engine.step(dt).
CallStep(dt) ==
  /\ StepCall(dt)
  /\ memo' = memo
  /\ hit' = IF memo # None /\ op[1] # "set_state" /\ ~raised' /\ read_by_step(store_dt(self, dt)) = memo[1].in
             THEN (IF \E j \in 1..Len(lam_solved) : lam_solved[j] > 0 THEN "after contact" ELSE "yes")
             ELSE "no"

\* engine.step(dt) right after set_state, remembered: what it read and what
\* it wrote.
CallStepRemembered(dt) ==
  /\ memo = None
  /\ op[1] = "set_state"
  /\ StepCall(dt)
  /\ ~raised'
  /\ memo' = Some([in |-> read_by_step(store_dt(self, dt)), out |-> body(self')])
  /\ hit' = "no"

\* engine.run_simulation(n).
CallRunSimulation(n) ==
  /\ Returned(run_simulation(self, n), "run_simulation", n)
  /\ Track(n)
  /\ lam_solved' = IF raised' THEN <<>> ELSE IF n = 0 THEN lam_solved ELSE solved_in_step(run_simulation(self, n - 1).self)
  /\ UNCHANGED <<ctor, memo>>
  /\ hit' = "no"

\* engine.get_state().
CallGetState ==
  /\ ret' = Some(get_state(self))
  /\ self' = self
  /\ raised' = FALSE
  /\ op' = <<"get_state", op[1], IF op[1] = "set_state" THEN op[2] ELSE None>>
  /\ UNCHANGED <<ctor, base, k, lam_solved, memo>>
  /\ hit' = "no"

\* engine.set_state(x, q, v, omega).
CallSetState(t) ==
  /\ self' = set_state(self, t.x, t.q, t.v, t.omega)
  /\ raised' = FALSE
  /\ ret' = None
  /\ op' = <<"set_state", t>>
  /\ base' = self'
  /\ k' = 0
  /\ lam_solved' = <<>>
  /\ UNCHANGED <<ctor, memo>>
  /\ hit' = "no"

Next ==
  \/ \E dt \in DtInputs : CallStep(dt)
  \/ \E n \in 0..MaxSteps : CallRunSimulation(n)
  \/ CallGetState
  \/ \E t \in SetStateInputs : CallSetState(t)

Spec == Init /\ [][Next]_vars

\* The same engine, with one step after a set_state remembered.
NextHistory ==
  \/ Next
  \/ \E dt \in DtInputs : CallStepRemembered(dt)

InitHistory == Init /\ ctor.contact_compliance = 1

SpecHistory == InitHistory /\ [][NextHistory]_vars

\* ------------------------------------------------------------------ claims

RECURSIVE steps(_, _)
\* n calls of step() with no dt, one after the other.
steps(e, n) == IF n = 0 THEN e ELSE steps(step(e, None).self, n - 1)

\* C1: run_simulation(n) leaves the engine as n consecutive step() calls
\* without dt made from the same state leave it: after any mix of k default
\* steps, taken one by one or n at a time by run_simulation, from the engine
\* base, every field a step reads is what k single steps from base give;
\* run_simulation(0) adds nothing.
C1_RunSimulationIsRepeatedStep == read_by_step(self) = read_by_step(steps(base, k))

C1_Witness == op = <<"run_simulation", 2>> /\ k = 2 /\ ~raised /\ body(self) # body(base)

\* C2: every step call advances one time step with the dt passed to it, or,
\* when none is passed, with the dt given at construction.
C2_StepUsesGivenOrConstructorDt ==
  [][(op'[1] = "step" /\ ~raised') =>
       body(self') = body(step_jitted([self EXCEPT !.dt = IF op'[2] # None THEN op'[2][1] ELSE ctor.dt]).self)]_vars

\* C3: a body whose inverse mass and inverse inertia are 0 has the same
\* position, orientation, velocity and angular velocity after any step or
\* run_simulation call as before it.
C3_StaticBodyUntouched ==
  [][(op'[1] \in {"step", "run_simulation"} /\ ~raised' /\ shapes_agree(self)) =>
       \A i \in 1..Len(self.x) :
         (self.inv_mass[i] = 0 /\ self.inv_inertia[i] = 0) =>
           /\ self'.x[i] = self.x[i] /\ self'.q[i] = self.q[i]
           /\ self'.v[i] = self.v[i] /\ self'.omega[i] = self.omega[i]]_vars

\* C4: whatever calls were made, inv_mass, inv_inertia, shape_type,
\* shape_params and friction are the tensors the constructor built from its
\* arguments.
C4_ConstantsNeverChange ==
  /\ self.inv_mass = __init__(ctor).inv_mass
  /\ self.inv_inertia = __init__(ctor).inv_inertia
  /\ self.shape_type = __init__(ctor).shape_type
  /\ self.shape_params = __init__(ctor).shape_params
  /\ self.friction = __init__(ctor).friction

C4_Witness == op = <<"get_state", "step", None>> /\ self.jitted_n_step /\ self.dt # ctor.dt /\ Len(self.x) # Len(ctor.x)

\* Constructor arguments the specification calls valid: per-body arrays of
\* one length, a positive radius for a sphere, positive half extents for a
\* box.
valid_args(a) ==
  /\ \A n \in {Len(a.q), Len(a.v), Len(a.omega), Len(a.inv_mass), Len(a.inv_inertia), Len(a.shape_type), Len(a.shape_params)} : n = Len(a.x)
  /\ a.friction # None => Len(a.friction[1]) = Len(a.x)
  /\ \A i \in 1..Len(a.shape_params) :
       IF i <= Len(a.shape_type) /\ a.shape_type[i] = 2 * SPHERE
       THEN a.shape_params[i][1] > 0
       ELSE \A j \in 1..3 : a.shape_params[i][j] > 0

\* C5: with arrays of different lengths or an invalid shape parameter the
\* constructor raises and no call is ever made on an engine.
C5_InvalidArgumentsRejected == ~valid_args(ctor) => (raised /\ op[1] = "__init__")

\* C6 as claimed: set_state writes x, q, v, omega and nothing else, get_state
\* changes nothing, and get_state right after set_state returns the four
\* arrays set_state was given, with the constants.
C6_GetReturnsWhatSetWasGiven ==
  [][/\ op'[1] = "set_state" =>
          /\ body(self') = <<Tensor_f32(op'[2].x), Tensor_f32(op'[2].q), Tensor_f32(op'[2].v), Tensor_f32(op'[2].omega)>>
          /\ self' = assign4(self, self')
     /\ op'[1] = "get_state" => self' = self
     /\ (op'[1] = "get_state" /\ op[1] = "set_state") =>
          /\ <<ret'[1].x, ret'[1].q, ret'[1].v, ret'[1].omega>> = <<op[2].x, op[2].q, op[2].v, op[2].omega>>
          /\ ret'[1].inv_mass = numpy(self.inv_mass) /\ ret'[1].inv_inertia = numpy(self.inv_inertia)
          /\ ret'[1].shape_type = numpy_i32(self.shape_type) /\ ret'[1].shape_params = numpy_x3(self.shape_params)]_vars

\* C6 as amended: the same, but get_state right after set_state returns the
\* four arrays rounded to float32.
C6_GetReturnsWhatSetStoredAsFloat32 ==
  [][/\ op'[1] = "set_state" =>
          /\ body(self') = <<Tensor_f32(op'[2].x), Tensor_f32(op'[2].q), Tensor_f32(op'[2].v), Tensor_f32(op'[2].omega)>>
          /\ self' = assign4(self, self')
     /\ op'[1] = "get_state" => self' = self
     /\ (op'[1] = "get_state" /\ op[1] = "set_state") =>
          /\ <<ret'[1].x, ret'[1].q, ret'[1].v, ret'[1].omega>> = <<numpy(Tensor_f32(op[2].x)), numpy(Tensor_f32(op[2].q)), numpy(Tensor_f32(op[2].v)), numpy(Tensor_f32(op[2].omega))>>
          /\ ret'[1].inv_mass = numpy(self.inv_mass) /\ ret'[1].inv_inertia = numpy(self.inv_inertia)
          /\ ret'[1].shape_type = numpy_i32(self.shape_type) /\ ret'[1].shape_params = numpy_x3(self.shape_params)]_vars

C6_Witness == op[1] = "get_state" /\ op[2] = "set_state" /\ ret # None /\ ret[1].x # op[3].x /\ ret[1].x = numpy(self.x)

\* C8: in every step the velocity solver is given the multipliers the
\* position solver ended with in that step.
C8_VelocitySolverGivenSolvedLambda ==
  [][(op'[1] = "step" /\ ~raised') =>
       LET e == store_dt(self, op'[2])
           t == physics_step_trace(e.x, e.q, e.v, e.omega, e.inv_mass, e.inv_inertia, e.shape_type, e.shape_params, e.friction, e.dt, e.gravity, e.restitution, e.solver_iterations, e.contact_compliance)
       IN  t.lambda_acc = t.lambda_pos]_vars

C10_FailedCallChangesNothing ==
  [][raised' => (body(self') = body(self) /\ self'.dt = self.dt)]_vars

====
